---- MODULE Spec2Model ----
(***************************************************************************)
(* The flowchart builder of src/pages/Index.tsx: the tree held by Index    *)
(* (flowchart), the display flag (truncateText), the edit buffer of every  *)
(* mounted FlowchartButton (editValue) and the event handlers that change  *)
(* them.                                                                   *)
(*                                                                         *)
(* Strings are sequences of one-character strings, so that trim() and      *)
(* length are computed and not assumed.  A node object is a record; its    *)
(* field `fresh` stands for the object's identity: TRUE for an object that *)
(* the latest call of updateNode / addChild allocated with a `{...}`       *)
(* literal, FALSE for an object that call carried over by reference.       *)
(***************************************************************************)
EXTENDS Integers, Sequences, FiniteSets, TLC

\* Bounds of the model.
MaxSteps == 5      \* events handled in a behaviour

VARIABLES
    flowchart,     \* Index: useState<FlowchartNode>, the root object
    truncateText,  \* Index: useState(false)
    editValue,     \* FlowchartButton: useState(node.name), one per mounted instance
    lastOp,        \* the handler that ran last, with its arguments
    editStart,     \* per instance in an edit session: node.name at handleDoubleClick
    steps          \* events handled so far

vars == <<flowchart, truncateText, editValue, lastOp, editStart, steps>>

-----------------------------------------------------------------------------
\* Strings

WhiteSpace == {" ", "\t", "\n", "\r"}

RECURSIVE trimStart(_)
trimStart(s) ==
    IF s = <<>> THEN s
    ELSE IF Head(s) \in WhiteSpace THEN trimStart(Tail(s)) ELSE s

RECURSIVE trimEnd(_)
trimEnd(s) ==
    IF s = <<>> THEN s
    ELSE IF s[Len(s)] \in WhiteSpace THEN trimEnd(SubSeq(s, 1, Len(s) - 1)) ELSE s

\* String.prototype.trim
trim(s) == trimEnd(trimStart(s))

Digit(d) ==
    CASE d = 0 -> "0" [] d = 1 -> "1" [] d = 2 -> "2" [] d = 3 -> "3"
      [] d = 4 -> "4" [] d = 5 -> "5" [] d = 6 -> "6" [] d = 7 -> "7"
      [] d = 8 -> "8" [] d = 9 -> "9"

\* `${n}` for a non-negative integer n
RECURSIVE NumberToString(_)
NumberToString(n) ==
    IF n < 10 THEN <<Digit(n)>>
    ELSE NumberToString(n \div 10) \o <<Digit(n % 10)>>

StartName == <<"S", "t", "a", "r", "t">>

\* `Button ${n}`
ButtonName(n) == <<"B", "u", "t", "t", "o", "n", " ">> \o NumberToString(n)

\* What the user can type into the Input (e.target.value)
EditInputs ==
    { <<>>,
      <<" ", "\t">>,
      <<" ", "a", " ", "b", "\t">> }

-----------------------------------------------------------------------------
\* Ids

RootId == <<"root">>

\* `node-${Date.now()}-${Math.random().toString(36).substr(2, 9)}`: k stands
\* for the pair (clock value, random digits).
ChildId(k) == <<"node", k>>

-----------------------------------------------------------------------------
\* The tree

RECURSIVE Paths(_)
Paths(node) ==
    {<<>>} \cup
    UNION {{<<i>> \o q : q \in Paths(node.children[i])} : i \in 1..Len(node.children)}

RECURSIVE NodeAt(_, _)
NodeAt(node, p) ==
    IF p = <<>> THEN node ELSE NodeAt(node.children[Head(p)], Tail(p))

IsPrefix(q, p) == Len(q) <= Len(p) /\ SubSeq(p, 1, Len(q)) = q

NodeCount(node) == Cardinality(Paths(node))

IdsOf(tree) == {NodeAt(tree, p).id : p \in Paths(tree)}

\* The values childId can take in addChild.  Nothing there compares the
\* generated string with the ids of the tree, so it is one that some node
\* already carries or one that none carries; ids are only ever compared for
\* equality, so the next unused number stands for every unused value.
ChildIds(tree) ==
    LET generated == IdsOf(tree) \ {RootId}
    IN  generated \cup {ChildId(Cardinality(generated) + 1)}

\* The objects of a tree as a later call sees them: none is its own allocation.
RECURSIVE Old(_)
Old(node) ==
    [node EXCEPT !.fresh = FALSE,
                 !.children = [i \in 1..Len(node.children) |-> Old(node.children[i])]]

\* Mutant of MergeUpdates: an isEditing of the patch flips the node's flag
MergeUpdates_flipsEditing(node, updates) ==
    [f \in DOMAIN node |->
        IF f = "fresh" THEN TRUE
        ELSE IF f = "isEditing" /\ f \in DOMAIN updates THEN ~node[f]
        ELSE IF f \in DOMAIN updates THEN updates[f] ELSE node[f]]

\* Mutant of MergeUpdates: the node rebuilt with `children: []`
MergeUpdates_dropsChildren(node, updates) ==
    [f \in DOMAIN node |->
        IF f = "fresh" THEN TRUE
        ELSE IF f = "children" THEN <<>>
        ELSE IF f \in DOMAIN updates THEN updates[f] ELSE node[f]]

\* { ...node, ...updates }
MergeUpdates(node, updates) ==
    [f \in DOMAIN node |->
        IF f = "fresh" THEN TRUE
        ELSE IF f \in DOMAIN updates THEN updates[f] ELSE node[f]]

\* { ...node, children: kids }
WithChildren(node, kids) == [node EXCEPT !.children = kids, !.fresh = TRUE]

\* Mutant of updateNodeRecursive: `...updates` spread in both branches
RECURSIVE updateNodeRecursive_spreadsInBoth(_, _, _)
updateNodeRecursive_spreadsInBoth(node, nodeId, updates) ==
    IF node.id = nodeId
    THEN MergeUpdates(node, updates)
    ELSE WithChildren(MergeUpdates(node, updates),
            [i \in 1..Len(node.children) |->
                updateNodeRecursive_spreadsInBoth(node.children[i], nodeId, updates)])

RECURSIVE updateNodeRecursive(_, _, _)
updateNodeRecursive(node, nodeId, updates) ==
    IF node.id = nodeId
    THEN MergeUpdates(node, updates)
    ELSE WithChildren(node,
            [i \in 1..Len(node.children) |->
                updateNodeRecursive(node.children[i], nodeId, updates)])

\* Mutant of updateNode: one setFlowchart call per field of the patch, each
\* computed from the flowchart of the same render, so that the last one wins
updateNode_perFieldCalls(nodeId, updates) ==
    updateNodeRecursive(Old(flowchart), nodeId,
                        [f \in DOMAIN updates \ {"name"} |-> updates[f]])

\* The tree updateNode hands to setFlowchart
updateNode(nodeId, updates) == updateNodeRecursive(Old(flowchart), nodeId, updates)

\* The object literal of the new child
NewChild(childId, n) ==
    [id |-> childId,
     name |-> ButtonName(n + 1),
     children |-> <<>>,
     isEditing |-> FALSE,
     childrenVisible |-> TRUE,
     fresh |-> TRUE]

\* Mutant of AppendChild: `...node.children` left out of the array literal
AppendChild_noSpread(node, childId) ==
    <<NewChild(childId, Len(node.children))>>

\* [...node.children, { id: childId, ... }]
AppendChild(node, childId) ==
    Append(node.children, NewChild(childId, Len(node.children)))

\* Mutant of addChildRecursive: the parent rebuilt with childrenVisible: true
RECURSIVE addChildRecursive_revealsParent(_, _, _)
addChildRecursive_revealsParent(node, parentId, childId) ==
    IF node.id = parentId
    THEN [WithChildren(node, AppendChild(node, childId)) EXCEPT !.childrenVisible = TRUE]
    ELSE WithChildren(node,
            [i \in 1..Len(node.children) |->
                addChildRecursive_revealsParent(node.children[i], parentId, childId)])

RECURSIVE addChildRecursive(_, _, _)
addChildRecursive(node, parentId, childId) ==
    IF node.id = parentId
    THEN WithChildren(node, AppendChild(node, childId))
    ELSE WithChildren(node,
            [i \in 1..Len(node.children) |->
                addChildRecursive(node.children[i], parentId, childId)])

\* The tree addChild hands to setFlowchart
addChild(parentId, childId) == addChildRecursive(Old(flowchart), parentId, childId)

-----------------------------------------------------------------------------
\* Rendering

hasChildren(node) == Len(node.children) > 0

\* The FlowchartButton instances of a render: a child row is rendered when
\* hasChildren && node.childrenVisible.  Children are only ever appended, so
\* the instance keyed child.id in a row is the instance at that index.
Mounted(tree) ==
    {p \in Paths(tree) :
        \A k \in 0..(Len(p) - 1) : NodeAt(tree, SubSeq(p, 1, k)).childrenVisible}

\* The edit buffers after a render of tree: an instance that stays mounted
\* keeps its state, a newly mounted one starts from useState(node.name).
Render(tree, ev) ==
    [p \in Mounted(tree) |-> IF p \in DOMAIN ev THEN ev[p] ELSE NodeAt(tree, p).name]

SetAt(f, p, v) == [q \in DOMAIN f \cup {p} |-> IF q = p THEN v ELSE f[q]]

\* Edit sessions that go on in tree
Sessions(tree, es) ==
    [p \in {q \in DOMAIN es : NodeAt(tree, q).isEditing} |-> es[p]]

NoUpdates == [f \in {} |-> TRUE]

\* The record kept of a handler's run: the instance it ran in, the id and the
\* patch it passed on, the buffer text it read and the child id it drew.
Op(name, p, id, updates, text, childId) ==
    [op |-> name, path |-> p, nodeId |-> id, updates |-> updates,
     text |-> text, childId |-> childId]

-----------------------------------------------------------------------------
\* Initial state

Init ==
    /\ flowchart = [id |-> RootId,
                    name |-> StartName,
                    children |-> <<>>,
                    isEditing |-> FALSE,
                    childrenVisible |-> TRUE,
                    fresh |-> TRUE]
    /\ truncateText = FALSE
    /\ editValue = Render(flowchart, <<>>)
    /\ lastOp = Op("init", <<>>, RootId, NoUpdates, <<>>, RootId)
    /\ editStart = <<>>
    /\ steps = 0

\* Every event is one step of the behaviour
Step == steps < MaxSteps /\ steps' = steps + 1

-----------------------------------------------------------------------------
\* Event handlers of the FlowchartButton instance at path p

\* The patches the handlers pass to onUpdateNode
DoubleClickUpdates == [isEditing |-> TRUE]

\* Mutant of SaveUpdates: the test `if (editValue.trim())` left out
SaveUpdates_noEmptyCheck(text) ==
    [name |-> trim(text), isEditing |-> FALSE]

\* The patch of handleSaveEdit for the buffer text
SaveUpdates(text) ==
    IF trim(text) # <<>>
    THEN [name |-> trim(text), isEditing |-> FALSE]
    ELSE [isEditing |-> FALSE]

\* Mutant of CancelUpdates: Escape handled as Enter
CancelUpdates_commitsBuffer(text) ==
    IF trim(text) # <<>>
    THEN [name |-> trim(text), isEditing |-> FALSE]
    ELSE [isEditing |-> FALSE]

\* The patch of handleCancelEdit, whatever the buffer text
CancelUpdates(text) == [isEditing |-> FALSE]

ToggleUpdates(node) == [childrenVisible |-> ~node.childrenVisible]

\* onDoubleClick of the Button, which is rendered when !node.isEditing
handleDoubleClick(p) ==
    /\ Step
    /\ p \in Mounted(flowchart)
    /\ LET node == NodeAt(flowchart, p)
           updates == DoubleClickUpdates
       IN  /\ ~node.isEditing
           /\ flowchart' = updateNode(node.id, updates)
           /\ editValue' = Render(flowchart', SetAt(editValue, p, node.name))
           /\ editStart' = Sessions(flowchart', SetAt(editStart, p, node.name))
           /\ lastOp' = Op("handleDoubleClick", p, node.id, updates, <<>>, RootId)
    /\ UNCHANGED truncateText

\* onBlur of the Input, or Enter in it; the Input is rendered when node.isEditing
handleSaveEdit(p) ==
    /\ Step
    /\ p \in Mounted(flowchart)
    /\ LET node == NodeAt(flowchart, p)
           updates == SaveUpdates(editValue[p])
       IN  /\ node.isEditing
           /\ flowchart' = updateNode(node.id, updates)
           /\ editValue' =
                Render(flowchart',
                       IF trim(editValue[p]) # <<>>
                       THEN editValue
                       ELSE SetAt(editValue, p, node.name))
           /\ editStart' = Sessions(flowchart', editStart)
           /\ lastOp' = Op("handleSaveEdit", p, node.id, updates, editValue[p], RootId)
    /\ UNCHANGED truncateText

\* Escape in the Input
handleCancelEdit(p) ==
    /\ Step
    /\ p \in Mounted(flowchart)
    /\ LET node == NodeAt(flowchart, p)
           updates == CancelUpdates(editValue[p])
       IN  /\ node.isEditing
           /\ flowchart' = updateNode(node.id, updates)
           /\ editValue' = Render(flowchart', SetAt(editValue, p, node.name))
           /\ editStart' = Sessions(flowchart', editStart)
           /\ lastOp' = Op("handleCancelEdit", p, node.id, updates, editValue[p], RootId)
    /\ UNCHANGED truncateText

\* onChange of the Input
setEditValue(p, text) ==
    /\ Step
    /\ p \in Mounted(flowchart)
    /\ NodeAt(flowchart, p).isEditing
    /\ editValue' = SetAt(editValue, p, text)
    /\ lastOp' = Op("setEditValue", p, NodeAt(flowchart, p).id, NoUpdates, text, RootId)
    /\ UNCHANGED <<flowchart, truncateText, editStart>>

\* onClick of the eye button, which is rendered when hasChildren
toggleChildrenVisibility(p) ==
    /\ Step
    /\ p \in Mounted(flowchart)
    /\ LET node == NodeAt(flowchart, p)
           updates == ToggleUpdates(node)
       IN  /\ hasChildren(node)
           /\ flowchart' = updateNode(node.id, updates)
           /\ editValue' = Render(flowchart', editValue)
           /\ editStart' = Sessions(flowchart', editStart)
           /\ lastOp' = Op("toggleChildrenVisibility", p, node.id, updates, <<>>, RootId)
    /\ UNCHANGED truncateText

\* onClick of the plus button: onAddChild(node.id)
clickAddChild(p, childId) ==
    /\ Step
    /\ p \in Mounted(flowchart)
    /\ LET node == NodeAt(flowchart, p)
       IN  /\ flowchart' = addChild(node.id, childId)
           /\ editValue' = Render(flowchart', editValue)
           /\ editStart' = Sessions(flowchart', editStart)
           /\ lastOp' = Op("addChild", p, node.id, NoUpdates, <<>>, childId)
    /\ UNCHANGED truncateText

\* onClick of the header button
setTruncateText ==
    /\ Step
    /\ truncateText' = ~truncateText
    /\ lastOp' = Op("setTruncateText", <<>>, RootId, NoUpdates, <<>>, RootId)
    /\ UNCHANGED <<flowchart, editValue, editStart>>

Next ==
    \/ \E p \in Paths(flowchart) : handleDoubleClick(p)
    \/ \E p \in Paths(flowchart) : handleSaveEdit(p)
    \/ \E p \in Paths(flowchart) : handleCancelEdit(p)
    \/ \E p \in Paths(flowchart), text \in EditInputs : setEditValue(p, text)
    \/ \E p \in Paths(flowchart) : toggleChildrenVisibility(p)
    \/ \E p \in Paths(flowchart), childId \in ChildIds(flowchart) : clickAddChild(p, childId)
    \/ setTruncateText

Spec == Init /\ [][Next]_vars

-----------------------------------------------------------------------------
\* The tree model called directly: updateNode and addChild as the props
\* onUpdateNode / onAddChild, with any id and any patch a handler builds.

MaxCalls == 3      \* direct calls in a behaviour

Patches ==
    {[isEditing |-> b] : b \in BOOLEAN}
    \cup {[childrenVisible |-> b] : b \in BOOLEAN}
    \cup {SaveUpdates(text) : text \in EditInputs}

\* Ids to call with: those of the tree and one that no node carries
CallIds(tree) == {RootId} \cup ChildIds(tree)

onUpdateNode(nodeId, updates) ==
    /\ steps < MaxCalls
    /\ steps' = steps + 1
    /\ flowchart' = updateNode(nodeId, updates)
    /\ editValue' = Render(flowchart', editValue)
    /\ editStart' = Sessions(flowchart', editStart)
    /\ lastOp' = Op("updateNode", <<>>, nodeId, updates, <<>>, RootId)
    /\ UNCHANGED truncateText

onAddChild(parentId, childId) ==
    /\ steps < MaxCalls
    /\ steps' = steps + 1
    /\ flowchart' = addChild(parentId, childId)
    /\ editValue' = Render(flowchart', editValue)
    /\ editStart' = Sessions(flowchart', editStart)
    /\ lastOp' = Op("addChild", <<>>, parentId, NoUpdates, <<>>, childId)
    /\ UNCHANGED truncateText

NextModel ==
    \/ \E nodeId \in CallIds(flowchart), updates \in Patches :
            onUpdateNode(nodeId, updates)
    \/ \E parentId \in CallIds(flowchart), childId \in ChildIds(flowchart) :
            onAddChild(parentId, childId)

SpecModel == Init /\ [][NextModel]_vars

-----------------------------------------------------------------------------
\* Layout: what the FlowchartButton instances render.  Lengths are counted
\* in tenths of a rem, which makes charWidth = 0.7 the integer 7.

Rem(x) == 10 * x

Max(a, b) == IF a >= b THEN a ELSE b

Ellipsis == <<".", ".", ".">>

\* Mutant of getDisplayText: the test written `text.length < 20`
getDisplayText_cutsAtTwenty(text, truncate) ==
    IF ~truncate \/ Len(text) < 20
    THEN text
    ELSE SubSeq(text, 1, 20) \o Ellipsis

\* getDisplayText, the prop truncateText passed as truncate
getDisplayText(text, truncate) ==
    IF ~truncate \/ Len(text) <= 20
    THEN text
    ELSE SubSeq(text, 1, 20) \o Ellipsis

getButtonWidth(text) ==
    LET baseWidth == Rem(8)
        charWidth == 7
        padding == Rem(4)
    IN  Max(baseWidth, Len(text) * charWidth + padding)

\* Mutant of buttonWidth: the width taken from the label while editing too
buttonWidth_ignoresBuffer(node, ev, truncate) ==
    getButtonWidth(IF truncate THEN getDisplayText(node.name, truncate)
                               ELSE node.name)

\* The box width of an instance with the buffer ev
buttonWidth(node, ev, truncate) ==
    getButtonWidth(IF node.isEditing
                   THEN ev
                   ELSE IF truncate THEN getDisplayText(node.name, truncate)
                                    ELSE node.name)

displayText(node, truncate) == getDisplayText(node.name, truncate)

\* The title attribute of the Button: <<>> for undefined
title(node, truncate) ==
    IF truncate /\ Len(node.name) > 20 THEN <<node.name>> ELSE <<>>

\* Mutant of SpineWidth: one spacing per child instead of one per gap
SpineWidth_perChild(n) == Rem(n * 14 + 6)

\* Width of the horizontal connector over n children
SpineWidth(n) == Rem((n - 1) * 14 + 6)

\* Left offset of the vertical line of the child at index (0-based)
TickLeft(index) == Rem(index * 14)

\* The block under the buttons of a node: the line down, the horizontal
\* connector with one vertical line per child, the number of child instances
ChildRow(node) ==
    LET n == Len(node.children)
    IN  IF hasChildren(node) /\ node.childrenVisible
        THEN [line |-> TRUE,
              spine |-> IF n > 1 THEN <<SpineWidth(n)>> ELSE <<>>,
              ticks |-> IF n > 1 THEN [i \in 1..n |-> TickLeft(i - 1)] ELSE <<>>,
              boxes |-> n]
        ELSE [line |-> FALSE, spine |-> <<>>, ticks |-> <<>>, boxes |-> 0]

\* What one instance renders for node at depth with the buffer ev
Instance(node, depth, ev, truncate) ==
    [parentLine |-> depth > 0,
     eye |-> hasChildren(node),
     input |-> node.isEditing,
     text |-> IF node.isEditing THEN ev ELSE displayText(node, truncate),
     width |-> buttonWidth(node, ev, truncate),
     title |-> IF node.isEditing THEN <<>> ELSE title(node, truncate),
     row |-> ChildRow(node)]

\* The render of a tree: one Instance per mounted node
Layout(tree, ev, truncate) ==
    [p \in Mounted(tree) |-> Instance(NodeAt(tree, p), Len(p), ev[p], truncate)]

-----------------------------------------------------------------------------
\* The handlers with long texts typed into the Input

Alphabet ==
    <<"a", "b", "c", "d", "e", "f", "g", "h", "i", "j", "k", "l", "m",
      "n", "o", "p", "q", "r", "s", "t", "u", "v", "w", "x", "y", "z">>

LongText(n) == SubSeq(Alphabet, 1, n)

\* Texts below, at and above the lengths where the layout changes
LayoutInputs == {<<>>, LongText(6), LongText(20), LongText(21)}

NextLayout ==
    \/ \E p \in Paths(flowchart) : handleDoubleClick(p)
    \/ \E p \in Paths(flowchart) : handleSaveEdit(p)
    \/ \E p \in Paths(flowchart) : handleCancelEdit(p)
    \/ \E p \in Paths(flowchart), text \in LayoutInputs : setEditValue(p, text)
    \/ \E p \in Paths(flowchart) : toggleChildrenVisibility(p)
    \/ \E p \in Paths(flowchart), childId \in ChildIds(flowchart) : clickAddChild(p, childId)
    \/ setTruncateText

SpecLayout == Init /\ [][NextLayout]_vars

-----------------------------------------------------------------------------
\* Vocabulary of the properties

\* A tree without the identities of its objects
RECURSIVE Content(_)
Content(node) ==
    [id |-> node.id,
     name |-> node.name,
     isEditing |-> node.isEditing,
     childrenVisible |-> node.childrenVisible,
     children |-> [i \in 1..Len(node.children) |-> Content(node.children[i])]]

\* The edges of a tree: ids and child sequences
RECURSIVE Shape(_)
Shape(node) ==
    [id |-> node.id,
     children |-> [i \in 1..Len(node.children) |-> Shape(node.children[i])]]

\* The content of one node: label, editing, childrenVisible
Fields(node) ==
    [name |-> node.name,
     isEditing |-> node.isEditing,
     childrenVisible |-> node.childrenVisible]

\* Fields(node) shallow-merged with a patch
Merged(node, updates) ==
    [f \in DOMAIN Fields(node) |->
        IF f \in DOMAIN updates THEN updates[f] ELSE node[f]]

\* The handlers that end in updateNode, and the direct call
UpdateOps ==
    {"handleDoubleClick", "handleSaveEdit", "handleCancelEdit",
     "toggleChildrenVisibility", "updateNode"}

IdsDistinct(tree) == Cardinality(IdsOf(tree)) = NodeCount(tree)

\* p lies on the path from the root to q, q included
OnPathTo(p, q) == IsPrefix(p, q)

-----------------------------------------------------------------------------
\* C1  Id uniqueness: after any sequence of addChild calls on existing
\* parents all node ids of the tree are pairwise distinct.
\* addChild draws childId from the clock and Math.random and never looks at
\* the tree, so TLC reaches a tree with two nodes of one id.
C1_IdsPairwiseDistinct == IdsDistinct(flowchart)

\* C2  Structural sharing: after an update of an existing node, every
\* subtree off the root-to-target path (the siblings of the path's nodes
\* and their descendants) is the object it was before the update.
\* updateNodeRecursive builds `{...node, children: ...}` for every node it
\* visits, so the siblings are new objects too.
C2_OffPathObjectsKept ==
    (lastOp.op \in UpdateOps /\ lastOp.nodeId \in IdsOf(flowchart)) =>
        \A p \in Paths(flowchart) :
            (\A q \in Paths(flowchart) :
                NodeAt(flowchart, q).id = lastOp.nodeId =>
                    ~OnPathTo(p, q) /\ ~OnPathTo(q, p))
            => ~NodeAt(flowchart, p).fresh

\* What does hold of the objects after an update: the children of the
\* updated node are carried over, every node outside it is a new object.
C2_OnlyTargetSubtreeKept ==
    (lastOp.op \in UpdateOps /\ lastOp.nodeId \in IdsOf(flowchart)) =>
        \A p \in Paths(flowchart) :
            NodeAt(flowchart, p).fresh <=>
                \A k \in 0..(Len(p) - 1) :
                    NodeAt(flowchart, SubSeq(p, 1, k)).id # lastOp.nodeId

\* C3  Missing-id no-op: updateNode and addChild called with an id that no
\* node of the tree carries leave the nodes, ids, labels, flags, child counts
\* and child order of the tree as they were.
C3_MissingIdNoOp ==
    [][(lastOp'.op \in {"updateNode", "addChild"}
        /\ lastOp'.nodeId \notin IdsOf(flowchart))
       => Content(flowchart') = Content(flowchart)]_vars

\* C3, the case reached
C3_Witness ==
    /\ lastOp.op = "updateNode"
    /\ lastOp.nodeId \notin IdsOf(flowchart)
    /\ lastOp.updates = [name |-> <<"a", " ", "b">>, isEditing |-> FALSE]
    /\ NodeCount(flowchart) >= 3

\* What C4 says of addChild issued at the instance p
C4_Effect(p) ==
    LET parent == NodeAt(flowchart, p)
        n == Len(parent.children)
        new == p \o <<n + 1>>
    IN  /\ Paths(flowchart') = Paths(flowchart) \cup {new}
        /\ NodeCount(flowchart') = NodeCount(flowchart) + 1
        /\ new \in Paths(flowchart')
              => Content(NodeAt(flowchart', new)) =
                    [id |-> lastOp'.childId,
                     name |-> ButtonName(n + 1),
                     isEditing |-> FALSE,
                     childrenVisible |-> TRUE,
                     children |-> <<>>]
        /\ \A q \in Paths(flowchart) :
              /\ q \in Paths(flowchart')
              /\ NodeAt(flowchart', q).id = NodeAt(flowchart, q).id
              /\ Fields(NodeAt(flowchart', q)) = Fields(NodeAt(flowchart, q))

\* C4  insertChild effect: addChild on an existing parent with n children
\* gives that one node n+1 children, the first n as before and the last a new
\* leaf labelled "Button {n+1}" with editing = false, childrenVisible = true;
\* the node count grows by exactly one and every other node keeps its id,
\* label, flags and child sequence.
\* With two nodes of one id (C1) the child goes to another node, or to both.
C4_InsertChildEffect ==
    [][lastOp'.op = "addChild" => C4_Effect(lastOp'.path)]_vars

\* The same on the trees whose ids are pairwise distinct
C4_InsertChildEffectDistinctIds ==
    [][(lastOp'.op = "addChild" /\ IdsDistinct(flowchart))
       => C4_Effect(lastOp'.path)]_vars

\* C5  Shape preservation under update: an update issued by a handler leaves
\* the set of nodes, each node's parent, child count and child order as they
\* were.
C5_UpdateKeepsShape ==
    [][lastOp'.op \in UpdateOps => Shape(flowchart') = Shape(flowchart)]_vars

\* C5, the case reached
C5_Witness ==
    /\ lastOp.op \in UpdateOps
    /\ lastOp.path # <<>>
    /\ Len(flowchart.children) >= 2
    /\ hasChildren(NodeAt(flowchart, lastOp.path))

\* What C6 says of an update issued at the instance p
C6_Effect(p) ==
    /\ Fields(NodeAt(flowchart', p)) = Merged(NodeAt(flowchart, p), lastOp'.updates)
    /\ \A q \in Paths(flowchart) \ {p} :
          Fields(NodeAt(flowchart', q)) = Fields(NodeAt(flowchart, q))

\* C6  Single-target update: an update of an existing node replaces exactly
\* that node's content by the shallow merge of its fields with the patch and
\* leaves every other node's content as it was.
\* With two nodes of one id (C1) the patch is merged into both.
C6_SingleTargetUpdate ==
    [][lastOp'.op \in UpdateOps \ {"updateNode"}
       => C6_Effect(lastOp'.path)]_vars

\* The same on the trees whose ids are pairwise distinct
C6_SingleTargetUpdateDistinctIds ==
    [][(lastOp'.op \in UpdateOps \ {"updateNode"}
        /\ IdsDistinct(flowchart))
       => C6_Effect(lastOp'.path)]_vars

\* C7  Monotonic growth: across every event a node of the tree stays in the
\* tree with its id, the root keeps the id 'root', and no node's child count
\* decreases.
C7_MonotonicGrowth ==
    [][/\ flowchart'.id = RootId
       /\ \A p \in Paths(flowchart) :
            /\ p \in Paths(flowchart')
            /\ NodeAt(flowchart', p).id = NodeAt(flowchart, p).id
            /\ Len(NodeAt(flowchart', p).children) >= Len(NodeAt(flowchart, p).children)
      ]_vars

\* C7, the case reached
C7_Witness ==
    /\ lastOp.op = "addChild"
    /\ Len(flowchart.children) >= 2
    /\ hasChildren(flowchart.children[1])

\* C8  Empty-label commit reverts: committing a buffer whose trimmed text is
\* empty (the empty and the whitespace-only buffer) leaves the node's label
\* as it was before the edit began and sets editing = false; no label is
\* ever the empty string.
C8_EmptyCommitReverts ==
    [][/\ (lastOp'.op = "handleSaveEdit" /\ trim(lastOp'.text) = <<>>) =>
            LET p == lastOp'.path
            IN  /\ NodeAt(flowchart', p).name = NodeAt(flowchart, p).name
                /\ p \in DOMAIN editStart => NodeAt(flowchart', p).name = editStart[p]
                /\ ~NodeAt(flowchart', p).isEditing
       /\ \A q \in Paths(flowchart') : NodeAt(flowchart', q).name # <<>>
      ]_vars

\* C8, the case reached
C8_Witness ==
    /\ lastOp.op = "handleSaveEdit"
    /\ lastOp.text = <<" ", "\t">>
    /\ lastOp.path # <<>>
    /\ ~NodeAt(flowchart, lastOp.path).isEditing

\* What C9 says of a commit issued at the instance p
C9_Effect(p) ==
    /\ NodeAt(flowchart', p).name = trim(lastOp'.text)
    /\ ~NodeAt(flowchart', p).isEditing
    /\ NodeAt(flowchart', p).childrenVisible = NodeAt(flowchart, p).childrenVisible
    /\ Shape(flowchart') = Shape(flowchart)
    /\ \A q \in Paths(flowchart) \ {p} :
          q \in Paths(flowchart')
            => Fields(NodeAt(flowchart', q)) = Fields(NodeAt(flowchart, q))

\* C9  Non-empty commit: committing a buffer t whose trimmed text is not
\* empty sets the node's label to trim(t) and its editing flag to false, and
\* changes no other field of that node and no other node.
\* With two nodes of one id (C1) the other node is relabelled too.
C9_NonEmptyCommit ==
    [][(lastOp'.op = "handleSaveEdit" /\ trim(lastOp'.text) # <<>>)
       => C9_Effect(lastOp'.path)]_vars

\* The same on the trees whose ids are pairwise distinct
C9_NonEmptyCommitDistinctIds ==
    [][(lastOp'.op = "handleSaveEdit" /\ trim(lastOp'.text) # <<>>
        /\ IdsDistinct(flowchart))
       => C9_Effect(lastOp'.path)]_vars

\* C10  Cancel restores the pre-edit label: after handleDoubleClick, any
\* changes of the buffer and then handleCancelEdit, the node's label is the
\* one it had at handleDoubleClick and editing = false, whatever the buffer
\* held; the buffer is reset to that label.
C10_CancelRestoresLabel ==
    [][lastOp'.op = "handleCancelEdit" =>
        LET p == lastOp'.path
        IN  /\ NodeAt(flowchart', p).name = NodeAt(flowchart, p).name
            /\ p \in DOMAIN editStart => NodeAt(flowchart', p).name = editStart[p]
            /\ ~NodeAt(flowchart', p).isEditing
            /\ p \in DOMAIN editValue'
            /\ editValue'[p] = NodeAt(flowchart', p).name
      ]_vars

\* C10, the case reached
C10_Witness ==
    /\ lastOp.op = "handleCancelEdit"
    /\ lastOp.text = <<" ", "a", " ", "b", "\t">>
    /\ lastOp.path # <<>>
    /\ editValue[lastOp.path] = ButtonName(1)

\* C11  Commit idempotence: once handleSaveEdit has committed a buffer text
\* whose trim is not empty, the same commit (the same id, the same text)
\* applied to the tree it left gives that tree again: labels, flags, shape.
C11_CommitIdempotent ==
    (lastOp.op = "handleSaveEdit" /\ trim(lastOp.text) # <<>>) =>
        Content(updateNodeRecursive(flowchart, lastOp.nodeId,
                                    SaveUpdates(lastOp.text)))
            = Content(flowchart)

\* C11, the case reached: a text with blanks around it committed on a child
C11_Witness ==
    /\ lastOp.op = "handleSaveEdit"
    /\ trim(lastOp.text) # <<>>
    /\ trim(lastOp.text) # lastOp.text
    /\ lastOp.path # <<>>
    /\ NodeAt(flowchart, lastOp.path).name = trim(lastOp.text)

\* The three parts of C12 for the toggle just handled in the instance at p:
\* only p's childrenVisible flipped; nothing rendered under a hidden p; the
\* same toggle handled once more gives back the tree and the layout.
C12_Effect(p) ==
    LET was == NodeAt(flowchart, p)
        now == NodeAt(flowchart', p)
        tree2 == updateNodeRecursive(flowchart', now.id, ToggleUpdates(now))
        ev2 == Render(tree2, editValue')
    IN  /\ Shape(flowchart') = Shape(flowchart)
        /\ \A q \in Paths(flowchart) :
                Fields(NodeAt(flowchart', q)) =
                    IF q = p THEN Merged(was, ToggleUpdates(was))
                             ELSE Fields(NodeAt(flowchart, q))
        /\ ~now.childrenVisible =>
                /\ \A q \in Mounted(flowchart') : ~(IsPrefix(p, q) /\ q # p)
                /\ ChildRow(now) = [line |-> FALSE, spine |-> <<>>,
                                    ticks |-> <<>>, boxes |-> 0]
        /\ Content(tree2) = Content(flowchart)
        /\ Layout(tree2, ev2, truncateText') = Layout(flowchart, editValue, truncateText)

\* An Input with a typed text sits below p
C12_BufferBelow(p) ==
    \E q \in Mounted(flowchart) :
        /\ IsPrefix(p, q) /\ q # p
        /\ NodeAt(flowchart, q).isEditing
        /\ Len(editValue[q]) # Len(NodeAt(flowchart, q).name)

\* C12  Visibility toggle round-trip: a toggle on a node with children flips
\* only that node's childrenVisible and leaves ids, labels, editing flags,
\* child counts and order alone; while the flag is false nothing of the
\* node's descendants is rendered; a second toggle gives a tree and a layout
\* identical to those before the first.
\* The buffer of an Input is state of its instance, which a hidden row
\* unmounts: shown again, the Input starts from node.name.  And a patch is
\* merged into every node that carries the id.
C12_ToggleRoundTrip ==
    [][lastOp'.op = "toggleChildrenVisibility" => C12_Effect(lastOp'.path)]_vars

\* What does hold: C12 on trees whose ids are pairwise distinct, for a
\* toggle with no typed text in an Input below the node
C12_ToggleRoundTripNoBuffer ==
    [][(lastOp'.op = "toggleChildrenVisibility" /\ IdsDistinct(flowchart)
        /\ ~C12_BufferBelow(lastOp'.path))
       => C12_Effect(lastOp'.path)]_vars

\* C13  Child-row geometry: a rendered node with childrenVisible and
\* n children has no child row for n = 0; the line down and no horizontal
\* connector for n = 1; for n >= 2 a horizontal connector of (n-1)*14+6 rem
\* with exactly n vertical lines, that of child i (0-based) at i*14 rem.
\* A root with two children: connector 20 rem, lines at 0 and 14 rem.
C13_ChildRowGeometry ==
    LET layout == Layout(flowchart, editValue, truncateText)
    IN  /\ \A p \in DOMAIN layout :
            LET node == NodeAt(flowchart, p)
                n == Len(node.children)
                row == layout[p].row
            IN  node.childrenVisible =>
                    /\ row.boxes = n
                    /\ n = 0 => ~row.line /\ row.spine = <<>> /\ row.ticks = <<>>
                    /\ n = 1 => row.line /\ row.spine = <<>> /\ row.ticks = <<>>
                    /\ n >= 2 =>
                        /\ row.line
                        /\ row.spine = <<10 * ((n - 1) * 14 + 6)>>
                        /\ Len(row.ticks) = n
                        /\ \A i \in 0..(n - 1) : row.ticks[i + 1] = 10 * (i * 14)
        /\ (flowchart.childrenVisible /\ Len(flowchart.children) = 2) =>
                /\ layout[<<>>].row.spine = <<200>>
                /\ layout[<<>>].row.ticks = <<0, 140>>

\* C13, the case reached: a row of three, a row of one and a leaf rendered
C13_Witness ==
    /\ lastOp.op = "addChild"
    /\ flowchart.childrenVisible
    /\ Len(flowchart.children) = 3
    /\ <<1, 1>> \in Mounted(flowchart)
    /\ Len(NodeAt(flowchart, <<1>>).children) = 1
    /\ Len(NodeAt(flowchart, <<2>>).children) = 0

\* C14  Truncation boundary: the text of a rendered Button is the label
\* itself when truncateText is off or the label has at most 20 characters,
\* and the label's first 20 characters followed by '...' when truncateText
\* is on and the label has 21 or more; the label is the Button's title in
\* exactly the second case.
C14_TruncationBoundary ==
    LET layout == Layout(flowchart, editValue, truncateText)
    IN  \A p \in DOMAIN layout :
            LET name == NodeAt(flowchart, p).name
                cut == truncateText /\ Len(name) >= 21
            IN  ~NodeAt(flowchart, p).isEditing =>
                    /\ ~cut => layout[p].text = name
                    /\ cut => layout[p].text =
                                [i \in 1..23 |-> IF i <= 20 THEN name[i] ELSE "."]
                    /\ layout[p].title = IF cut THEN <<name>> ELSE <<>>

\* C14, the case reached: a label of 21 characters rendered cut
C14_Witness ==
    /\ truncateText
    /\ ~flowchart.isEditing
    /\ Len(flowchart.name) = 21
    /\ lastOp.op = "setTruncateText"

\* C14, the other side of the boundary: a label of 20 characters
C14_WitnessTwenty ==
    /\ truncateText
    /\ ~flowchart.isEditing
    /\ Len(flowchart.name) = 20

\* C15  Box width: the width of every rendered box is
\* max(8, len(text) * 0.7 + 4) rem, text being the edit buffer while the
\* node is editing and the display text (the label, or its truncated form)
\* otherwise; it is never below 8 rem, and after each change of the buffer
\* it is the width for the text just typed.
C15_BoxWidth ==
    LET layout == Layout(flowchart, editValue, truncateText)
        Width(len) == IF 7 * len + 40 >= 80 THEN 7 * len + 40 ELSE 80
    IN  /\ \A p \in DOMAIN layout :
            LET node == NodeAt(flowchart, p)
                len == IF node.isEditing THEN Len(editValue[p])
                       ELSE IF truncateText /\ Len(node.name) > 20 THEN 20 + 3
                       ELSE Len(node.name)
            IN  /\ layout[p].width = Width(len)
                /\ layout[p].width >= 80
        /\ lastOp.op = "setEditValue" =>
                layout[lastOp.path].width = Width(Len(lastOp.text))

\* C15, the case reached: 21 characters typed into a child's Input, the
\* root's box at the minimum width
C15_Witness ==
    /\ lastOp.op = "setEditValue"
    /\ lastOp.path # <<>>
    /\ Len(lastOp.text) = 21
    /\ NodeAt(flowchart, lastOp.path).isEditing
    /\ ~flowchart.isEditing
    /\ flowchart.name = StartName

\* The patch the handler named op computes in the instance at p from the
\* stored tree and the buffers
C16_Patch(op, p) ==
    CASE op = "handleDoubleClick" -> [isEditing |-> TRUE]
      [] op = "handleSaveEdit" ->
            IF trim(editValue[p]) # <<>>
            THEN [name |-> trim(editValue[p]), isEditing |-> FALSE]
            ELSE [isEditing |-> FALSE]
      [] op = "handleCancelEdit" -> [isEditing |-> FALSE]
      [] op = "toggleChildrenVisibility" ->
            [childrenVisible |-> ~NodeAt(flowchart, p).childrenVisible]

C17_Transitions ==
    LET op == lastOp'.op
        p == lastOp'.path
    IN  /\ op = "handleDoubleClick" => ~NodeAt(flowchart, p).isEditing
        /\ op \in {"handleSaveEdit", "handleCancelEdit"} =>
                NodeAt(flowchart, p).isEditing /\ ~NodeAt(flowchart', p).isEditing
        /\ \A q \in Paths(flowchart) :
            /\ (~NodeAt(flowchart, q).isEditing /\ NodeAt(flowchart', q).isEditing)
                    => op = "handleDoubleClick"
            /\ (NodeAt(flowchart, q).isEditing /\ ~NodeAt(flowchart', q).isEditing)
                    => op \in {"handleSaveEdit", "handleCancelEdit"}

\* C17  Per-node interaction cycle: a node's editing flag goes from off to on
\* by beginEdit only and from on to off by commit or cancel only; add-child
\* and toggle never change an editing flag and are never applied to a node
\* whose editing flag is on; beginEdit is never applied to a node that is
\* editing.
\* The plus button is rendered whatever node.isEditing is, and the eye
\* button whenever the node has children: their handlers run on an editing
\* node.
C17_InteractionCycle ==
    [][/\ C17_Transitions
       /\ lastOp'.op \in {"addChild", "toggleChildrenVisibility"} =>
                ~NodeAt(flowchart, lastOp'.path).isEditing]_vars

\* What does hold: the cycle without the exclusion of add-child and toggle
\* on an editing node
C17_CycleOfEditingFlags == [][C17_Transitions]_vars

\* The rendered or hidden nodes whose isEditing is on
Editors(tree) == {p \in Paths(tree) : NodeAt(tree, p).isEditing}

\* C18  Single editor: in every reachable state at most one node has
\* isEditing on.
\* handleDoubleClick turns the flag of its node on and leaves the flags of
\* the others as they are; with a shared id it turns on two at once.
C18_SingleEditor == Cardinality(Editors(flowchart)) <= 1

\* C19  Leaves are never hidden-flagged: in every reachable state every
\* node without children has childrenVisible on.
\* The eye button is rendered for a node with children only, but its patch
\* is merged into every node that carries the id, a leaf among them.
C19_LeavesVisible ==
    \A p \in Paths(flowchart) :
        ~hasChildren(NodeAt(flowchart, p)) => NodeAt(flowchart, p).childrenVisible

\* What does hold: C19 on trees whose ids are pairwise distinct
C19_LeavesVisibleDistinctIds ==
    IdsDistinct(flowchart) => C19_LeavesVisible

\* C20  Add-child does not reveal a collapsed parent: the plus button of a
\* node whose childrenVisible is off appends the new child and leaves the
\* node's childrenVisible off, its label and editing flag as they were;
\* neither the new child nor anything else of the child row is rendered,
\* and the child is rendered once the node is toggled back.
C20_AddChildKeepsCollapsed ==
    [][(lastOp'.op = "addChild" /\ ~NodeAt(flowchart, lastOp'.path).childrenVisible) =>
        LET p == lastOp'.path
            was == NodeAt(flowchart, p)
            now == NodeAt(flowchart', p)
            n == Len(was.children)
            layout == Layout(flowchart', editValue', truncateText')
            shown == updateNodeRecursive(flowchart', now.id, ToggleUpdates(now))
        IN  /\ Len(now.children) = n + 1
            /\ Content(now.children[n + 1]) = Content(NewChild(lastOp'.childId, n))
            /\ \A i \in 1..n : Content(now.children[i]) = Content(was.children[i])
            /\ Fields(now) = Fields(was)
            /\ ~now.childrenVisible
            /\ p \in DOMAIN layout
            /\ \A q \in DOMAIN layout : ~(IsPrefix(p, q) /\ q # p)
            /\ layout[p].row = [line |-> FALSE, spine |-> <<>>,
                                ticks |-> <<>>, boxes |-> 0]
            /\ Append(p, n + 1) \in Mounted(shown)
      ]_vars

\* C20, the case reached: a second child added to a collapsed child of the root
C20_Witness ==
    /\ lastOp.op = "addChild"
    /\ lastOp.path # <<>>
    /\ ~NodeAt(flowchart, lastOp.path).childrenVisible
    /\ Len(NodeAt(flowchart, lastOp.path).children) = 2

====
